---------------------------- MODULE Spec2Model ----------------------------
(***************************************************************************)
(* Model of the Iris inference service (api/main.py, src/utils.py).        *)
(*                                                                         *)
(* The service is a FastAPI application: a startup hook loads the model    *)
(* artifact, GET /health reports whether a model is bound, POST /predict   *)
(* validates the payload, runs the bound model, and in a finally block     *)
(* observes the latency, appends a row to the SQLite ledger and writes a   *)
(* log line.  Sync endpoints run on a thread pool, so several /predict     *)
(* calls are in flight at once; each statement group of predict() that     *)
(* touches shared state is one action of the model.                        *)
(*                                                                         *)
(* Optional Python values (None or a value, an unbound local or a bound    *)
(* one) are sequences of length 0 or 1.                                    *)
(***************************************************************************)
EXTENDS Integers, Sequences, FiniteSets, TLC

\* Number of /predict requests the clients issue (each may run concurrently).
MaxReqs == 2

Reqs == 1..MaxReqs

None == "None"

--------------------------------------------------------------------------
(* Payloads: api/main.py IrisFeatures                                      *)

\* api/main.py:51
_feature_order == <<"sepal_length", "sepal_width", "petal_length", "petal_width">>

Fields == {_feature_order[i] : i \in 1..Len(_feature_order)}

\* float("inf"): a JSON number such as 1e999 parses to it, and it passes ge=0.
Inf == 1000

Vec(a, b, c, d) ==
    [f \in Fields |-> CASE f = "sepal_length" -> a
                        [] f = "sepal_width"  -> b
                        [] f = "petal_length" -> c
                        [] OTHER              -> d]

\* The request bodies the clients send.  A missing field is a field outside
\* the body's domain.
Payloads ==
    { Vec(5, 3, 1, 0),
      Vec(0, 0, 0, 0),
      Vec(Inf, 3, 1, 0),
      Vec(5, 3, 1, -1),
      [f \in Fields \ {"petal_width"} |-> Vec(5, 3, 1, 0)[f]] }

\* Mutant: the fields are required but carry no ge=0 bound.
IrisFeaturesUnbounded(p) == DOMAIN p = Fields

\* IrisFeatures: every field required (Field(...)) and ge=0.
IrisFeatures(p) ==
    /\ DOMAIN p = Fields
    /\ \A f \in Fields : p[f] >= 0

\* IrisFeatures.to_dataframe: the row in _feature_order.
to_dataframe(p) == [i \in 1..Len(_feature_order) |-> p[_feature_order[i]]]

--------------------------------------------------------------------------
(* The model artifact: an opaque object joblib.load returns.               *)

\* What can be stored at MODEL_PATH: nothing, a file joblib cannot load, or a
\* classifier.  "logreg" is what train.py exports (3 classes, predict_proba);
\* "svc4" has 4 classes and no predict_proba; "rf4" has 4 classes and
\* predict_proba.
ModelKinds == {"logreg", "svc4", "rf4"}
Artifacts == {"absent", "corrupt"} \cup ModelKinds

MODEL_PATH == "artifacts/model/model.joblib"

\* api/main.py:52
_target_names == [i \in {0, 1, 2} |-> CASE i = 0 -> "setosa"
                                        [] i = 1 -> "versicolor"
                                        [] OTHER -> "virginica"]

\* str(yhat) for the class ids the artifacts produce.
Str(i) == CASE i = 0 -> "0" [] i = 1 -> "1" [] i = 2 -> "2" [] i = 3 -> "3"
            [] OTHER -> "-1"

\* _model.predict(X)[0]: <<"raise", exception>> or <<"ok", class id>>.
\* scikit-learn estimators reject a non-finite input with ValueError.
ModelPredict(m, X) ==
    IF \E i \in DOMAIN X : X[i] = Inf THEN <<"raise", "ValueError">>
    ELSE IF m = "logreg" THEN <<"ok", IF X[3] <= 2 THEN 0 ELSE 2>>
    ELSE <<"ok", IF X[3] = 0 THEN 3 ELSE 0>>

\* hasattr(_model, "predict_proba")
HasPredictProba(m) == m \in {"logreg", "rf4"}

\* _model.predict_proba(X)[0]: one entry (in percent) per class of the model.
ModelPredictProba(m, X) ==
    LET y == ModelPredict(m, X)[2]
        n == IF m = "logreg" THEN 3 ELSE 4
    IN  [i \in 1..n |-> IF i - 1 = y THEN 100 ELSE 0]


--------------------------------------------------------------------------
(* State                                                                   *)

VARIABLES
    phase,       \* "boot" before the startup hook has run, then "serving"
    artifact,    \* what is stored at MODEL_PATH
    _model,      \* api/main.py:50, None or the loaded classifier
    counter,     \* PREDICT_REQUESTS (predict_requests_total)
    hist,        \* PREDICT_LATENCY: number and sum of the observations
    ledger,      \* rows of the predictions table, in id order
    req,         \* the /predict calls: position and locals of each (logexc is
                 \* the exception raised inside the try of api/main.py:148)
    healthResp,  \* the last answer of GET /health (<<>> before the first)
    table,       \* whether the predictions table exists in the SQLite file
    disk,        \* the data files src/data.py writes: path -> content
    save         \* the save_iris() run: position and locals

\* The variables of the data preparation job.
dataVars == <<disk, save>>

\* The variables of the service, the ledger apart.
serviceVars == <<phase, artifact, _model, counter, hist, req, healthResp>>

vars == <<phase, artifact, _model, counter, hist, ledger, req, healthResp,
          table, disk, save>>

\* Clock readings (datetime.utcnow()) and latencies in ms (perf_counter
\* differences) the environment can produce.
Instants == {"2024-01-01T00:00:00Z", "2024-01-01T00:00:01Z"}
Latencies == {3}

\* src/data.py:39-42
RAW_PATH == "data/raw/iris.csv"
PROCESSED_PATH == "data/processed/iris.csv"
METADATA_PATH == "data/metadata.json"
SCHEMA_PATH == "data/schema.json"
DataPaths == {RAW_PATH, PROCESSED_PATH, METADATA_PATH, SCHEMA_PATH}

\* A path at which no file exists.
Absent == [kind |-> "absent"]

\* save_iris() before it is called.
NotRun == [i |-> 0, df |-> <<>>, dirs |-> FALSE, checksum |-> <<>>, exc |-> None]

\* A call that has not been made yet.
Idle ==
    [pc |-> "idle", payload |-> <<>>, ts |-> <<>>, yhat |-> <<>>, resp |-> <<>>,
     exc |-> None, latency |-> <<>>, logexc |-> None, result |-> <<>>]

\* The service before its first request.
ServiceInit ==
    /\ phase = "boot"
    /\ _model = None
    /\ counter = 0
    /\ hist = [count |-> 0, sum |-> 0]
    /\ ledger = <<>>
    /\ req = [r \in Reqs |-> Idle]
    /\ healthResp = <<>>

\* No data file written, save_iris() not running.
DataInit ==
    /\ disk = [f \in DataPaths |-> Absent]
    /\ save = NotRun

\* The service once api.main is imported: init_db() has run (api/main.py:46).
Init ==
    /\ ServiceInit
    /\ artifact \in Artifacts
    /\ table = TRUE
    /\ DataInit

\* What the caller of an endpoint gets: an HTTP status, the response body of
\* a 200, and for a failure the exception that left the handler together
\* with the exception it replaced (__context__).
Reply(status, body, exc, context) ==
    [status |-> status, body |-> body, exc |-> exc, context |-> context]

--------------------------------------------------------------------------
(* Model lifecycle                                                         *)

\* Mutant: a missing artifact is replaced by a classifier fitted on the spot.
_load_modelFallback(a) ==
    IF a = "absent" THEN <<"ok", "logreg">>
    ELSE IF a = "corrupt" THEN <<"raise", "UnpicklingError">>
    ELSE <<"ok", a>>

\* _load_model: <<"raise", exception>> or <<"ok", model>>.
_load_model(a) ==
    IF a = "absent" THEN <<"raise", "FileNotFoundError">>
    ELSE IF a = "corrupt" THEN <<"raise", "UnpicklingError">>
    ELSE <<"ok", a>>

\* @app.on_event("startup"): bind the model, or log the failure and go on.
_startup ==
    /\ phase = "boot"
    /\ phase' = "serving"
    /\ _model' = IF _load_model(artifact)[1] = "ok" THEN _load_model(artifact)[2]
                 ELSE _model
    /\ UNCHANGED <<table, dataVars, artifact, counter, hist, ledger, req, healthResp>>

\* train.py exports the best model to the artifact path; this may happen
\* while the service is running.
ExportModel ==
    /\ artifact \notin ModelKinds
    /\ artifact' = "logreg"
    /\ UNCHANGED <<table, dataVars, phase, _model, counter, hist, ledger, req, healthResp>>

--------------------------------------------------------------------------
(* GET /health                                                             *)

\* Mutant: the probe tries to load the model when none is bound.
healthLoads ==
    /\ phase = "serving"
    /\ _model' = IF _model = None /\ _load_model(artifact)[1] = "ok"
                 THEN _load_model(artifact)[2] ELSE _model
    /\ healthResp' = << [status |-> IF _model' # None THEN 200 ELSE 503,
                         ok |-> TRUE,
                         model_loaded |-> _model' # None,
                         model_path |-> MODEL_PATH] >>
    /\ UNCHANGED <<table, dataVars, phase, artifact, counter, hist, ledger, req>>

health ==
    /\ phase = "serving"
    /\ LET ready == _model # None
       IN  healthResp' = << [status |-> IF ready THEN 200 ELSE 503,
                             ok |-> TRUE,
                             model_loaded |-> ready,
                             model_path |-> MODEL_PATH] >>
    /\ UNCHANGED <<table, dataVars, phase, artifact, _model, counter, hist, ledger, req>>

--------------------------------------------------------------------------
(* POST /predict                                                           *)

Set(r, fields) == [req EXCEPT ![r] = fields @@ req[r]]

\* The request arrives; FastAPI validates the body against IrisFeatures
\* before it calls predict(), and answers 422 itself when that fails.
Receive(r, p) ==
    /\ phase = "serving"
    /\ req[r].pc = "idle"
    /\ req' = IF IrisFeatures(p)
              THEN Set(r, [pc |-> "check", payload |-> <<p>>])
              ELSE Set(r, [pc |-> "done", payload |-> <<p>>,
                           result |-> <<Reply(422, <<>>, "RequestValidationError", None)>>])
    /\ UNCHANGED <<table, dataVars, phase, artifact, _model, counter, hist, ledger, healthResp>>

\* Mutant: an unbound model is loaded on demand before the check.
ReadinessCheckLazy(r) ==
    /\ req[r].pc = "check"
    /\ _model' = IF _model = None /\ _load_model(artifact)[1] = "ok"
                 THEN _load_model(artifact)[2] ELSE _model
    /\ req' = IF _model' = None
              THEN Set(r, [pc |-> "done",
                           result |-> <<Reply(503, <<>>, "HTTPException", None)>>])
              ELSE Set(r, [pc |-> "inc"])
    /\ UNCHANGED <<table, dataVars, phase, artifact, counter, hist, ledger, healthResp>>

\* Mutant: the request is counted before the readiness check.
ReadinessCheckCounts(r) ==
    /\ req[r].pc = "check"
    /\ counter' = counter + 1
    /\ req' = IF _model = None
              THEN Set(r, [pc |-> "done",
                           result |-> <<Reply(503, <<>>, "HTTPException", None)>>])
              ELSE Set(r, [pc |-> "inc"])
    /\ UNCHANGED <<table, dataVars, phase, artifact, _model, hist, ledger, healthResp>>

\* api/main.py:120-121.
ReadinessCheck(r) ==
    /\ req[r].pc = "check"
    /\ req' = IF _model = None
              THEN Set(r, [pc |-> "done",
                           result |-> <<Reply(503, <<>>, "HTTPException", None)>>])
              ELSE Set(r, [pc |-> "inc"])
    /\ UNCHANGED <<table, dataVars, phase, artifact, _model, counter, hist, ledger, healthResp>>

\* Mutant: the request is counted twice.
IncTwice(c) == c + 2

\* Counter.inc(): the client library adds under the value's lock.
Inc(c) == c + 1

\* api/main.py:123-125.
Instrument(r, now) ==
    /\ req[r].pc = "inc"
    /\ counter' = Inc(counter)
    /\ req' = Set(r, [pc |-> "try", ts |-> <<now>>])
    /\ UNCHANGED <<table, dataVars, phase, artifact, _model, hist, ledger, healthResp>>

\* _target_names.get(int(yhat), str(yhat))
LabelName(y) == IF y \in DOMAIN _target_names THEN _target_names[y] ELSE Str(y)

\* {_target_names[int(i)]: float(p) for i, p in enumerate(proba)}:
\* <<"raise", "KeyError">> when proba has an entry for an unknown class id.
Probabilities(proba) ==
    IF \E i \in DOMAIN proba : (i - 1) \notin DOMAIN _target_names
    THEN <<"raise", "KeyError">>
    ELSE <<"ok", [n \in {_target_names[i - 1] : i \in DOMAIN proba} |->
                    proba[CHOOSE i \in DOMAIN proba : _target_names[i - 1] = n]]>>

\* The body of the try block, api/main.py:128-143, for bound model m: the
\* locals it leaves (yhat, resp) and the exception it raised, if any.
TryBlock(m, p, ts) ==
    LET X    == to_dataframe(p)
        out  == ModelPredict(m, X)
        yhat == out[2]
        resp == [label_id |-> yhat, label_name |-> LabelName(yhat),
                 probabilities |-> <<>>, model_path |-> MODEL_PATH, timestamp |-> ts]
        prob == Probabilities(ModelPredictProba(m, X))
    IN  IF m = None
        THEN [yhat |-> <<>>, resp |-> <<>>, exc |-> "AttributeError"]
        ELSE IF out[1] = "raise"
        THEN [yhat |-> <<>>, resp |-> <<>>, exc |-> out[2]]
        ELSE IF ~HasPredictProba(m)
        THEN [yhat |-> <<yhat>>, resp |-> <<resp>>, exc |-> None]
        ELSE IF prob[1] = "raise"
        THEN [yhat |-> <<yhat>>, resp |-> <<resp>>, exc |-> prob[2]]
        ELSE [yhat |-> <<yhat>>,
              resp |-> <<[resp EXCEPT !.probabilities = <<prob[2]>>]>>,
              exc |-> None]

\* api/main.py:127-143.
Try(r) ==
    /\ req[r].pc = "try"
    /\ req' = Set(r, [pc |-> "observe"]
                     @@ TryBlock(_model, req[r].payload[1], req[r].ts[1]))
    /\ UNCHANGED <<table, dataVars, phase, artifact, _model, counter, hist, ledger, healthResp>>

\* Histogram.observe(): count and sum are added to under their locks.
Observed(h, latency) == [count |-> h.count + 1, sum |-> h.sum + latency]

\* Mutant: the latency is observed on the success path only.
ObserveOnSuccess(r, latency) ==
    /\ req[r].pc = "observe"
    /\ hist' = IF req[r].exc = None THEN Observed(hist, latency) ELSE hist
    /\ req' = Set(r, [pc |-> "log", latency |-> <<latency>>])
    /\ UNCHANGED <<table, dataVars, phase, artifact, _model, counter, ledger, healthResp>>

\* api/main.py:146-147, the first statements of the finally block.
Observe(r, latency) ==
    /\ req[r].pc = "observe"
    /\ hist' = Observed(hist, latency)
    /\ req' = Set(r, [pc |-> "log", latency |-> <<latency>>])
    /\ UNCHANGED <<table, dataVars, phase, artifact, _model, counter, ledger, healthResp>>

\* int(yhat), yhat a local of predict(): an unbound local raises.
IntOf(yhat) ==
    IF yhat = <<>> THEN <<"raise", "UnboundLocalError">> ELSE <<"ok", yhat[1]>>

\* api/main.py:152, the prediction argument of log_prediction:
\* int(yhat) if "_model" in globals() and _model is not None else -1.
PredictionArg(m, yhat) == IF m # None THEN IntOf(yhat) ELSE <<"ok", -1>>

\* Mutant: the INSERT binds two feature values to each other's column.
RowSwapped(ts, features, prediction, latency_ms) ==
    [ts |-> ts,
     features |-> [features EXCEPT !["sepal_length"] = features["sepal_width"],
                                   !["sepal_width"] = features["sepal_length"]],
     prediction |-> prediction, latency_ms |-> latency_ms]

\* src/utils.py log_prediction: the row INSERTed into predictions.
Row(ts, features, prediction, latency_ms) ==
    [ts |-> ts, features |-> features, prediction |-> prediction,
     latency_ms |-> latency_ms]

\* src/utils.py:115-132, INSERT INTO predictions: one new row, after the
\* rows already there.
Insert(rows, row) == Append(rows, row)

\* Mutant: the handler lets the exception through.
AfterLogHandlerReraises(e) == e

\* The exception that leaves the try statement of api/main.py:148-156 when
\* its body raised e: the handler catches every Exception and logs a warning.
AfterLogHandler(e) == None

\* api/main.py:148-156.  dbOk is whether SQLite accepts the INSERT (the file
\* may be locked, the disk full, the table dropped).
LogPrediction(r, dbOk) ==
    /\ req[r].pc = "log"
    /\ LET arg == PredictionArg(_model, req[r].yhat)
           e   == IF arg[1] = "raise" THEN arg[2]
                  ELSE IF ~dbOk \/ ~table THEN "OperationalError" ELSE None
           out == IF e = None THEN None ELSE AfterLogHandler(e)
       IN  /\ ledger' = IF e = None
                        THEN Insert(ledger, Row(req[r].ts[1], req[r].payload[1],
                                                arg[2], req[r].latency[1]))
                        ELSE ledger
           /\ req' = IF out = None
                     THEN Set(r, [pc |-> "info", logexc |-> e])
                     ELSE Set(r, [pc |-> "done", logexc |-> e,
                                  result |-> <<Reply(500, <<>>, out,
                                                     req[r].exc)>>])
    /\ UNCHANGED <<table, dataVars, phase, artifact, _model, counter, hist, healthResp>>

\* api/main.py:160, the yhat argument of the log line:
\* int(yhat) if _model else None.
LogLineArg(m, yhat) == IF m # None THEN IntOf(yhat) ELSE <<"ok", None>>

\* What predict() hands to its caller when the finally block is left: an
\* exception raised in the finally block replaces the pending one (which
\* becomes its __context__), else the pending exception is re-raised, else
\* the return value is returned.
Leave(pending, resp, raised) ==
    IF raised # None THEN Reply(500, <<>>, raised, pending)
    ELSE IF pending # None THEN Reply(500, <<>>, pending, None)
    ELSE Reply(200, resp, None, None)

\* Mutant: a failed prediction drops the bound model.
EmitLogUnbinds(r) ==
    /\ req[r].pc = "info"
    /\ LET arg == LogLineArg(_model, req[r].yhat)
       IN  req' = Set(r, [pc |-> "done",
                          result |-> <<Leave(req[r].exc, req[r].resp,
                                             IF arg[1] = "raise" THEN arg[2]
                                             ELSE None)>>])
    /\ _model' = IF req[r].exc # None THEN None ELSE _model
    /\ UNCHANGED <<table, dataVars, phase, artifact, counter, hist, ledger, healthResp>>

\* api/main.py:157-162 and the end of the finally block.
EmitLog(r) ==
    /\ req[r].pc = "info"
    /\ LET arg == LogLineArg(_model, req[r].yhat)
       IN  req' = Set(r, [pc |-> "done",
                          result |-> <<Leave(req[r].exc, req[r].resp,
                                             IF arg[1] = "raise" THEN arg[2]
                                             ELSE None)>>])
    /\ UNCHANGED <<table, dataVars, phase, artifact, _model, counter, hist, ledger, healthResp>>

--------------------------------------------------------------------------

Next ==
    \/ _startup
    \/ ExportModel
    \/ health
    \/ \E r \in Reqs, p \in Payloads : Receive(r, p)
    \/ \E r \in Reqs : ReadinessCheck(r)
    \/ \E r \in Reqs, now \in Instants : Instrument(r, now)
    \/ \E r \in Reqs : Try(r)
    \/ \E r \in Reqs, latency \in Latencies : Observe(r, latency)
    \/ \E r \in Reqs, dbOk \in BOOLEAN : LogPrediction(r, dbOk)
    \/ \E r \in Reqs : EmitLog(r)

Spec == Init /\ [][Next]_vars

--------------------------------------------------------------------------
(* The ledger API of src/utils.py, called directly                         *)

\* Rows a caller appends before it stops.
MaxRows == 2

\* The prediction values callers log: a class id or the sentinel.
Predictions == {-1} \cup DOMAIN _target_names

\* A fresh SQLite file: no table yet.
InitLedger ==
    /\ ServiceInit
    /\ artifact = "absent"
    /\ table = FALSE
    /\ DataInit

\* Mutant: the table is dropped and created again.
init_dbRecreates ==
    /\ table' = TRUE
    /\ ledger' = <<>>
    /\ UNCHANGED <<serviceVars, dataVars>>

\* src/utils.py:70-88, CREATE TABLE IF NOT EXISTS in one transaction: the
\* table exists afterwards, and an existing table keeps its rows.
init_db ==
    /\ table' = TRUE
    /\ ledger' = ledger
    /\ UNCHANGED <<serviceVars, dataVars>>

\* src/utils.py:91-132, one INSERT in one transaction; without the table
\* sqlite3 raises OperationalError and nothing is written.
log_prediction(ts_iso, features, prediction, latency_ms) ==
    /\ Len(ledger) < MaxRows
    /\ ledger' = IF table
                 THEN Insert(ledger, Row(ts_iso, features, prediction, latency_ms))
                 ELSE ledger
    /\ UNCHANGED <<table, serviceVars, dataVars>>

NextLedger ==
    \/ init_db
    \/ \E ts_iso \in Instants, features \in {p \in Payloads : IrisFeatures(p)},
          prediction \in Predictions, latency_ms \in Latencies :
           log_prediction(ts_iso, features, prediction, latency_ms)

\* Any number of callers of init_db and log_prediction, in any order; each
\* call is one SQLite transaction.
SpecLedger == InitLedger /\ [][NextLedger]_vars

--------------------------------------------------------------------------
(* Data preparation: src/data.py save_iris                                 *)

\* File contents.  A CSV is known by its table; "iris" is the table
\* load_iris() returns, "edited" a table left by an earlier, different run.
Csv(data) == [kind |-> "csv", data |-> data]
Schema == [kind |-> "schema", features |-> Fields, target |-> "label"]
Metadata(created_at, processed_csv, checksum) ==
    [kind |-> "metadata", dataset |-> "iris", created_at |-> created_at,
     processed_csv |-> processed_csv, checksum_sha256 |-> checksum]

\* hashlib.sha256 of a file's bytes, as hex: distinct contents, distinct
\* digests.
Sha256(content) ==
    CASE content = Csv("iris")   -> "9f2ac1"
      [] content = Csv("edited") -> "41d07e"
      [] content = Schema        -> "c3b5a9"
      [] OTHER                   -> "e07f12"

\* src/data.py:57-63: open() raises when the file is missing.
_sha256_file(d, path) ==
    IF d[path] = Absent THEN <<"raise", "FileNotFoundError">>
    ELSE <<"ok", Sha256(d[path])>>

\* What an earlier run, or an edit by hand, may have left at each path.
Leftovers(path) ==
    IF path \in {RAW_PATH, PROCESSED_PATH}
    THEN {Absent, Csv("iris"), Csv("edited")}
    ELSE IF path = SCHEMA_PATH THEN {Absent, Schema}
    ELSE {Absent} \cup {Metadata(t, PROCESSED_PATH, Sha256(Csv("edited"))) :
                            t \in Instants}

InitData ==
    /\ ServiceInit
    /\ artifact = "absent"
    /\ table = TRUE
    /\ disk \in {d \in [DataPaths -> UNION {Leftovers(f) : f \in DataPaths}] :
                    \A f \in DataPaths : d[f] \in Leftovers(f)}
    /\ save = NotRun

\* Mutant: the checksum is taken before the processed CSV is written.
save_iris_stepsChecksumEarly ==
    <<"load_iris", "makedirs", "to_csv_raw", "checksum", "to_csv_processed",
      "dump_schema", "dump_metadata">>

\* The statements of save_iris in program order, src/data.py:87-137.
save_iris_steps ==
    <<"load_iris", "makedirs", "to_csv_raw", "to_csv_processed", "dump_schema",
      "checksum", "dump_metadata">>

\* The statement save_iris() executes next.
AtStep(name) ==
    /\ save.exc = None
    /\ save.i < Len(save_iris_steps)
    /\ save_iris_steps[save.i + 1] = name

Advance(fields) == fields @@ [save EXCEPT !.i = @ + 1]

\* src/data.py:87-96
LoadIris ==
    /\ AtStep("load_iris")
    /\ save' = Advance([df |-> <<"iris">>])
    /\ UNCHANGED <<disk, table, ledger, serviceVars>>

\* src/data.py:99-101
MakeDirs ==
    /\ AtStep("makedirs")
    /\ save' = Advance([dirs |-> TRUE])
    /\ UNCHANGED <<disk, table, ledger, serviceVars>>

\* df.to_csv(path): the file is created or overwritten.
to_csv(path) ==
    /\ save.dirs
    /\ disk' = [disk EXCEPT ![path] = Csv(save.df[1])]
    /\ save' = Advance(<<>>)
    /\ UNCHANGED <<table, ledger, serviceVars>>

\* src/data.py:104
WriteRaw == AtStep("to_csv_raw") /\ to_csv(RAW_PATH)

\* src/data.py:107
WriteProcessed == AtStep("to_csv_processed") /\ to_csv(PROCESSED_PATH)

\* src/data.py:110-121
DumpSchema ==
    /\ AtStep("dump_schema")
    /\ disk' = [disk EXCEPT ![SCHEMA_PATH] = Schema]
    /\ save' = Advance(<<>>)
    /\ UNCHANGED <<table, ledger, serviceVars>>

\* src/data.py:124
Checksum ==
    /\ AtStep("checksum")
    /\ LET h == _sha256_file(disk, PROCESSED_PATH)
       IN  save' = IF h[1] = "ok" THEN Advance([checksum |-> <<h[2]>>])
                   ELSE [save EXCEPT !.exc = h[2]]
    /\ UNCHANGED <<disk, table, ledger, serviceVars>>

\* src/data.py:125-137
DumpMetadata(now) ==
    /\ AtStep("dump_metadata")
    /\ disk' = [disk EXCEPT ![METADATA_PATH] =
                                Metadata(now, PROCESSED_PATH, save.checksum[1])]
    /\ save' = Advance(<<>>)
    /\ UNCHANGED <<table, ledger, serviceVars>>

NextData ==
    \/ LoadIris
    \/ MakeDirs
    \/ WriteRaw
    \/ WriteProcessed
    \/ DumpSchema
    \/ Checksum
    \/ \E now \in Instants : DumpMetadata(now)

\* One run of `python src/data.py` over whatever the data directory holds.
SpecData == InitData /\ [][NextData]_vars

--------------------------------------------------------------------------
(* Vocabulary of the properties                                            *)

Done(r) == req[r].pc = "done"
Status(r) == req[r].result[1].status

\* No /predict call is in flight.
Quiescent == \A r \in Reqs : req[r].pc \in {"idle", "done"}

\* The calls that passed the readiness check of api/main.py:120.
Passed == {r \in Reqs : \/ req[r].pc \in {"inc", "try", "observe", "log", "info"}
                        \/ Done(r) /\ Status(r) \notin {422, 503}}

\* The finished calls whose prediction step (the try block) raised, and
\* those that returned a result.
Failed == {r \in Reqs : Done(r) /\ req[r].exc # None}
Succeeded == {r \in Reqs : Done(r) /\ Status(r) = 200}

\* The calls whose INSERT SQLite refused.
StorageErrors == {r \in Reqs : req[r].logexc = "OperationalError"}

Rows(P(_)) == {i \in DOMAIN ledger : P(ledger[i])}
IsSentinel(row) == row.prediction = -1
IsClassId(row) == row.prediction # -1

--------------------------------------------------------------------------
(* C1..C3: the finally block on the failure paths                          *)

\* C1: once every call has finished and SQLite refused no INSERT, the ledger
\* holds exactly one row per call that passed the readiness check, whether
\* its prediction step succeeded or raised.
C1_OneRowPerAttempt ==
    (Quiescent /\ StorageErrors = {}) => Len(ledger) = Cardinality(Passed)

\* C2: once every call has finished and SQLite refused no INSERT, the rows
\* with the sentinel prediction -1 are as many as the calls whose prediction
\* step failed, and the rows with a class id are as many as the calls that
\* returned a result.
C2_SentinelIffFailed ==
    (Quiescent /\ StorageErrors = {}) =>
        /\ Cardinality(Rows(IsSentinel)) = Cardinality(Failed)
        /\ Cardinality(Rows(IsClassId)) = Cardinality(Succeeded)

\* C3: a call whose prediction step raised reports that exception to its
\* caller; nothing raised in the finally block replaces it.
C3_OriginalFailureReported ==
    \A r \in Failed : req[r].result[1].exc = req[r].exc

--------------------------------------------------------------------------
(* C4: a refused INSERT does not change the response                       *)

\* C4: a call whose prediction step succeeded and whose INSERT SQLite refused
\* still answers 200 with the response the try block assembled (label id,
\* label name, probabilities, model path, timestamp); no exception reaches
\* the caller.
C4_LedgerErrorSwallowed ==
    \A r \in StorageErrors :
        (Done(r) /\ req[r].exc = None) =>
            req[r].result[1] =
                Reply(200, TryBlock(_model, req[r].payload[1], req[r].ts[1]).resp,
                      None, None)

C4_Witness ==
    \E r \in StorageErrors :
        /\ Done(r) /\ req[r].exc = None /\ Status(r) = 200
        /\ req[r].result[1].body[1].probabilities # <<>>
        /\ ledger = <<>>

--------------------------------------------------------------------------
(* C5..C8: readiness                                                       *)

\* The step of call r that performs the readiness check.
Checks(r) == req[r].pc = "check" /\ req'[r].pc # "check"

\* C5 as stated: a predict call that finds the model unbound re-attempts the
\* load, so when the artifact is loadable at that moment the call binds the
\* model and goes on to be served.
C5_LazyLoadOnPredict ==
    [][\A r \in Reqs :
         (Checks(r) /\ _model = None /\ artifact \in ModelKinds) =>
             (_model' # None /\ req'[r].pc = "inc")]_vars

\* C5 as amended: once the service is serving, nothing loads the model; a
\* predict call that finds the model unbound leaves it unbound and answers
\* 503, also when the artifact has become loadable since startup.
C5_NoLoadAfterStartup ==
    [][/\ phase = "serving" => _model' = _model
       /\ \A r \in Reqs :
            (Checks(r) /\ _model = None) =>
                /\ req'[r].pc = "done"
                /\ req'[r].result[1] = Reply(503, <<>>, "HTTPException", None)]_vars

C5_Witness ==
    /\ phase = "serving" /\ _model = None /\ artifact \in ModelKinds
    /\ healthResp # <<>> /\ healthResp[1].status = 503
    /\ \A r \in Reqs : Done(r) /\ IrisFeatures(req[r].payload[1]) /\ Status(r) = 503

\* C6: a predict call answered while no model is bound gets 503 (HTTPException)
\* and never reaches the instrumented region; while the service runs with
\* the model unbound the counter, the histogram and the ledger keep their
\* initial values, the probe answers 503 / model_loaded false, and every
\* valid predict call is answered 503.
C6_UnavailableLeavesNoTrace ==
    /\ \A r \in Reqs :
         (Done(r) /\ Status(r) = 503) =>
             /\ req[r].result[1] = Reply(503, <<>>, "HTTPException", None)
             /\ req[r].ts = <<>> /\ req[r].latency = <<>> /\ req[r].logexc = None
    /\ (phase = "serving" /\ _model = None) =>
         /\ counter = 0 /\ hist = [count |-> 0, sum |-> 0] /\ ledger = <<>>
         /\ healthResp # <<>> =>
              (healthResp[1].status = 503 /\ ~healthResp[1].model_loaded)
         /\ \A r \in Reqs :
              (Done(r) /\ IrisFeatures(req[r].payload[1])) => Status(r) = 503

C6_Witness ==
    /\ phase = "serving" /\ _model = None /\ artifact = "absent"
    /\ healthResp # <<>> /\ healthResp[1].status = 503
    /\ \A r \in Reqs : Done(r) /\ Status(r) = 503
    /\ counter = 0 /\ hist.count = 0 /\ ledger = <<>>

\* C7: a bound model is never unbound or replaced; the probe's last answer
\* says model_loaded exactly when a model is bound (false before the first
\* successful load, true ever after), and with a model bound no valid
\* predict call is turned away with 503, whatever calls failed before.
C7_ReadinessMonotone ==
    /\ [][_model # None => _model' = _model]_vars
    /\ [](/\ healthResp # <<>> =>
               /\ healthResp[1].model_loaded <=> _model # None
               /\ healthResp[1].status = 200 <=> _model # None
          /\ \A r \in Reqs :
               (Done(r) /\ _model # None /\ IrisFeatures(req[r].payload[1])) =>
                   Status(r) # 503)

C7_Witness ==
    /\ _model # None
    /\ healthResp # <<>> /\ healthResp[1].status = 200
    /\ Failed # {} /\ Succeeded # {}

\* C8: a /health call changes nothing but its own answer: it loads no model
\* and leaves the binding, the counter, the histogram, the ledger and the
\* predict calls alone; it answers 200 / model_loaded true when a model is
\* bound and 503 / model_loaded false otherwise, with the configured path.
C8_HealthPureRead ==
    [][healthResp' # healthResp =>
         /\ UNCHANGED <<table, dataVars, phase, artifact, _model, counter, hist, ledger, req>>
         /\ healthResp' = << [status |-> IF _model # None THEN 200 ELSE 503,
                              ok |-> TRUE,
                              model_loaded |-> _model # None,
                              model_path |-> MODEL_PATH] >>]_vars

C8_Witness ==
    /\ healthResp # <<>> /\ healthResp[1].status = 503
    /\ healthResp[1].model_path = MODEL_PATH
    /\ _model = None /\ artifact \in ModelKinds

--------------------------------------------------------------------------
(* C9, C10: the metrics                                                    *)

\* C9: once all predict calls have finished, in whatever order their steps
\* interleaved, the counter and the number of histogram observations both
\* equal the number of calls that passed the readiness check.
C9_NoLostUpdates ==
    Quiescent => /\ counter = Cardinality(Passed)
                 /\ hist.count = Cardinality(Passed)

C9_Witness ==
    /\ Quiescent /\ Passed = Reqs /\ counter = MaxReqs /\ hist.count = MaxReqs
    /\ Failed # {} /\ Succeeded # {}
    /\ Len(ledger) > 0 /\ ledger[1].features = req[MaxReqs].payload[1]
    /\ req[1].payload[1] # req[MaxReqs].payload[1]

\* The calls that have executed PREDICT_REQUESTS.inc(), and those that have
\* executed PREDICT_LATENCY.observe().
Counted == {r \in Reqs : req[r].ts # <<>>}
Timed == {r \in Reqs : req[r].latency # <<>>}

\* C10: every call that passed the readiness check is counted once and timed
\* once, on the success and on the failure paths, and no other call is; the
\* counter never decreases; with no call in flight the histogram holds as
\* many observations as the counter says.
C10_OncePerAttempt ==
    /\ [][counter' >= counter]_vars
    /\ [](/\ counter = Cardinality(Counted)
          /\ hist.count = Cardinality(Timed)
          /\ Counted \subseteq Passed /\ Timed \subseteq Counted
          /\ \A r \in Passed : Done(r) => (r \in Counted /\ r \in Timed)
          /\ Quiescent => hist.count = counter)

C10_Witness ==
    /\ Quiescent /\ counter = MaxReqs /\ hist.count = MaxReqs
    /\ \E r \in Reqs : req[r].result[1].exc = "UnboundLocalError"
    /\ \E r \in Reqs : req[r].result[1].exc = "KeyError"

--------------------------------------------------------------------------
(* C11: validation                                                         *)

\* A body with all four fields, each >= 0.
WellFormed(p) ==
    /\ \A f \in {"sepal_length", "sepal_width", "petal_length", "petal_width"} :
         f \in DOMAIN p /\ p[f] >= 0
    /\ Cardinality(DOMAIN p) = 4

Received == {r \in Reqs : req[r].payload # <<>>}

\* C11: a predict call whose body lacks a field or has a negative field is
\* answered 422 at once, is never counted, timed or logged, and its values
\* reach no ledger row; a body with all four fields >= 0 (all zeros too) is
\* never answered 422.  The counter, the histogram and the ledger account
\* for well-formed calls only.
C11_ValidationBeforePipeline ==
    /\ \A r \in Received :
         IF WellFormed(req[r].payload[1])
         THEN Done(r) => Status(r) # 422
         ELSE /\ Done(r)
              /\ req[r].result[1] = Reply(422, <<>>, "RequestValidationError", None)
              /\ req[r].ts = <<>> /\ req[r].latency = <<>> /\ req[r].yhat = <<>>
    /\ counter <= Cardinality({r \in Received : WellFormed(req[r].payload[1])})
    /\ hist.count <= Cardinality({r \in Received : WellFormed(req[r].payload[1])})
    /\ \A i \in DOMAIN ledger : WellFormed(ledger[i].features)

C11_Witness ==
    /\ Quiescent
    /\ \E r \in Reqs : Done(r) /\ Status(r) = 422
                       /\ "petal_width" \notin DOMAIN req[r].payload[1]
    /\ \E r \in Reqs : Done(r) /\ Status(r) = 200
                       /\ \A f \in Fields : req[r].payload[1][f] = 0
    /\ counter = 1 /\ hist.count = 1 /\ Len(ledger) = 1

\* A second witness of C11's other rejected shape: a negative field.
C11_WitnessNegative ==
    \E r \in Reqs : Done(r) /\ Status(r) = 422 /\ DOMAIN req[r].payload[1] = Fields
                    /\ counter = 0 /\ ledger = <<>>

--------------------------------------------------------------------------
(* C12: class ids outside _target_names                                    *)

\* The calls in which the bound model showed a class id outside {0, 1, 2}:
\* predict returned one, or predict_proba has an entry for one.
UnknownClassShown ==
    {r \in Reqs :
        /\ req[r].yhat # <<>>
        /\ \/ req[r].yhat[1] \notin {0, 1, 2}
           \/ /\ HasPredictProba(_model)
              /\ Len(ModelPredictProba(_model, to_dataframe(req[r].payload[1]))) > 3}

\* C12: a call in which the model showed an unknown class id does not crash:
\* it answers 200, and when the predicted class is the unknown one the label
\* name is the id written as a string.
C12_UnknownClassNoCrash ==
    \A r \in UnknownClassShown :
        Done(r) =>
            /\ Status(r) = 200
            /\ req[r].yhat[1] \notin {0, 1, 2} =>
                 req[r].result[1].body[1].label_name = Str(req[r].yhat[1])

\* The half of C12 the code keeps: without predict_proba an unknown
\* predicted class is answered 200 with label_name "3".
C12_GetFallbackReached ==
    \E r \in UnknownClassShown :
        /\ Done(r) /\ Status(r) = 200
        /\ req[r].result[1].body[1].label_id = 3
        /\ req[r].result[1].body[1].label_name = "3"

--------------------------------------------------------------------------
(* C13: no artifact at MODEL_PATH                                          *)

\* The step in which the startup hook runs.
Starts == phase = "boot" /\ phase' = "serving"

\* C13 as stated: when the startup hook finds no artifact at MODEL_PATH it
\* binds a fallback classifier, so the service comes up ready.
C13_FallbackBound ==
    [][(Starts /\ artifact = "absent") => _model' # None]_vars

\* C13 as amended: when the startup hook finds no artifact at MODEL_PATH it
\* binds nothing (the FileNotFoundError is logged); the only model ever
\* bound is the one stored at MODEL_PATH, and a service that started without
\* an artifact stays unready: its probe answers 503 and so does every valid
\* predict call.
C13_NoFallback ==
    /\ [][(Starts /\ artifact = "absent") =>
            (_model' = None /\ _load_model(artifact) = <<"raise", "FileNotFoundError">>)]_vars
    /\ [](_model # None => _model = artifact)
    /\ []((phase = "serving" /\ artifact = "absent") =>
            /\ _model = None
            /\ healthResp # <<>> => healthResp[1].status = 503
            /\ \A r \in Reqs : (Done(r) /\ WellFormed(req[r].payload[1])) =>
                                   Status(r) = 503)

C13_Witness ==
    /\ phase = "serving" /\ artifact = "absent" /\ _model = None
    /\ healthResp # <<>> /\ ~healthResp[1].model_loaded
    /\ \E r \in Reqs : Done(r) /\ WellFormed(req[r].payload[1]) /\ Status(r) = 503
    /\ \E r \in Reqs : req[r].pc = "check"

--------------------------------------------------------------------------
(* C16: the ledger row and the response                                    *)

\* The calls that returned a result and whose INSERT went through.
Audited == {r \in Succeeded : req[r].logexc = None}

\* The row that agrees with the response of call r.
AgreesWith(row, r) ==
    /\ row.prediction = req[r].result[1].body[1].label_id
    /\ row.features = req[r].payload[1]
    /\ row.ts = req[r].result[1].body[1].timestamp

\* C16: for every call that returned a result and whose INSERT went through,
\* the ledger holds a row with the returned label_id, the call's four input
\* values and the response's timestamp; and the ledger holds as many rows
\* agreeing with a response as there are such calls with that response and
\* input, however the calls interleave.
C16_RowAgreesWithResponse ==
    \A r \in Audited :
        /\ \E i \in DOMAIN ledger : AgreesWith(ledger[i], r)
        /\ Cardinality({i \in DOMAIN ledger : AgreesWith(ledger[i], r)}) >=
               Cardinality({q \in Audited :
                               /\ req[q].payload = req[r].payload
                               /\ req[q].result = req[r].result})

C16_Witness ==
    /\ Audited = Reqs
    /\ req[1].payload # req[MaxReqs].payload
    /\ req[1].ts # req[MaxReqs].ts
    /\ req[1].result[1].body[1].label_id # req[MaxReqs].result[1].body[1].label_id
    /\ AgreesWith(ledger[1], MaxReqs)
    /\ AgreesWith(ledger[Len(ledger)], 1)

--------------------------------------------------------------------------
(* C14: init_db and the append-only ledger                                 *)

IsPrefix(a, b) == Len(a) <= Len(b) /\ SubSeq(b, 1, Len(a)) = a

\* C14: in every step of any sequence of init_db and log_prediction calls
\* the table, once created, stays; the rows already written stay as they
\* are, in place; at most one row is added, and only after the table was
\* created; and a step that creates the table adds and removes no row.  So
\* init_db changes nothing once the table exists, wherever it is called.
C14_AppendOnlyIdempotentInit ==
    [][/\ table => table'
       /\ IsPrefix(ledger, ledger')
       /\ Len(ledger') <= Len(ledger) + 1
       /\ ledger' # ledger => (table /\ table')
       /\ table' # table => ledger' = ledger]_vars

C14_Witness ==
    /\ table /\ Len(ledger) = MaxRows
    /\ ledger[1] = ledger[MaxRows]
    /\ ledger[1].prediction = -1

--------------------------------------------------------------------------
(* C15: the metadata record of save_iris                                   *)

\* save_iris() has returned.
Saved == save.exc = None /\ save.i = Len(save_iris_steps)

\* C15: when save_iris has returned, the raw, processed, schema and metadata
\* files exist, the metadata's checksum_sha256 is the SHA-256 of the
\* processed CSV now on disk, and its processed_csv is the processed path.
C15_ChecksumOfWrittenCsv ==
    Saved =>
        /\ \A f \in DataPaths : disk[f].kind # "absent"
        /\ disk[METADATA_PATH].kind = "metadata"
        /\ disk[METADATA_PATH].checksum_sha256 = Sha256(disk[PROCESSED_PATH])
        /\ disk[METADATA_PATH].processed_csv = "data/processed/iris.csv"

C15_Witness ==
    /\ Saved
    /\ disk[PROCESSED_PATH] = Csv("iris")
    /\ disk[METADATA_PATH].checksum_sha256 = "9f2ac1"
    /\ disk[METADATA_PATH].checksum_sha256 # Sha256(Csv("edited"))

==========================================================================
